---------------------------- MODULE Spec2Model ----------------------------
(***************************************************************************)
(* Model of src/main.py: the Flask callback handler linked_roles, the      *)
(* metadata builder/publisher update_metadata, the bot coroutine           *)
(* get_user_roles and the bot thread run_bot.                              *)
(*                                                                         *)
(* Two threads of control are modelled: the bot thread (run_bot) and the   *)
(* HTTP threads, one per in-flight callback request (Flask's development   *)
(* server serves requests on separate threads).  Every request carries the *)
(* handler's local variables under the names the source gives them.        *)
(***************************************************************************)
EXTENDS Integers, Sequences, FiniteSets, TLC

\* ------------------------------------------------------------------ bounds
\* Number of callback requests that may be in flight together.
NumRequests == 2

Requests == 1..NumRequests

\* ------------------------------------------------------- configuration
\* The Python None.
None == "None"

\* SERVER_ID (line 21).  The @everyone role of a guild carries the guild's
\* own id, so every member's role list contains it.
SERVER_ID == 1

\* ROLE_MAPPINGS (lines 31-37) as the ordered (key, role id) items of the
\* dict.  The 19-digit role ids are abbreviated to their distinguishing
\* digits: ...057407, ...057406, ...990026, ...990033, ...990028.
ROLE_MAPPINGS ==
    << <<"founder", 407>>, <<"manager", 406>>, <<"developer", 26>>,
       <<"mod", 33>>, <<"event_host", 28>> >>

\* Keys and role ids of a mapping given as a sequence of items.
Keys(mapping) == {mapping[i][1] : i \in 1..Len(mapping)}

RoleIds(mapping) == {mapping[i][2] : i \in 1..Len(mapping)}

\* mapping[key] for a key of the mapping.
RoleOf(mapping, key) ==
    mapping[CHOOSE i \in 1..Len(mapping) : mapping[i][1] = key][2]

\* ------------------------------------------------------------ dicts
\* A Python dict is a function from its keys.  `metadata = {}` (line 133).
EmptyDict == [k \in {} |-> 0]

\* d[k] = v
DictSet(d, k, v) == [x \in (DOMAIN d) \cup {k} |-> IF x = k THEN v ELSE d[x]]

\* d.get(k) == v, for v other than None
DictGetIs(d, k, v) == k \in DOMAIN d /\ d[k] = v

\* --------------------------------------------- update_metadata, 133-143
\* Lines 135-138: the value stored for one mapped role id.
FlagInverted(role_id, user_role_ids) == IF role_id \in user_role_ids THEN 0 ELSE 1

Flag(role_id, user_role_ids) == IF role_id \in user_role_ids THEN 1 ELSE 0

\* Lines 134-138: the for loop over ROLE_MAPPINGS.items(), from item i on.
RECURSIVE MetadataLoop(_, _, _, _)
MetadataLoop(mapping, i, metadata, user_role_ids) ==
    IF i > Len(mapping)
    THEN metadata
    ELSE MetadataLoop(mapping, i + 1,
                      DictSet(metadata, mapping[i][1],
                              Flag(mapping[i][2], user_role_ids)),
                      user_role_ids)

\* Lines 142-143: a manager is never published as mod.
NoOverride(metadata) == metadata

ManagerOverride(metadata) ==
    IF DictGetIs(metadata, "manager", 1)
    THEN DictSet(metadata, "mod", 0)
    ELSE metadata

\* Lines 133-143: the metadata payload for a role list.
BuildMetadata(mapping, user_role_ids) ==
    ManagerOverride(MetadataLoop(mapping, 1, EmptyDict, user_role_ids))

\* --------------------------------------------------- the outside world
\* Values of the `code` query parameter: absent (request.args.get gives
\* None), present but empty, or an authorization code.
Codes == {"codeA", "codeB"}

CodeInputs == {None, ""} \cup Codes

\* The access token Discord issues for a code and the user it belongs to.
TokenFor(code) == IF code = "codeA" THEN "tokenA" ELSE "tokenB"

UserOf(access_token) == IF access_token = "tokenA" THEN "userA" ELSE "userB"

\* Results of one outbound HTTP call: a 2xx answer, a non-2xx answer
\* (raise_for_status raises HTTPError), a transport failure (requests raises
\* ConnectionError or Timeout), or a 2xx answer whose JSON lacks the key read.
HttpResults == {"ok", "http_error", "transport_error"}

JsonResults == HttpResults \cup {"key_missing"}

\* Role lists guild.fetch_member can report; each holds the @everyone role.
\* (The resolver harness below covers every role list.)
MemberRoleLists ==
    { {SERVER_ID},
      {SERVER_ID, RoleOf(ROLE_MAPPINGS, "manager"), RoleOf(ROLE_MAPPINGS, "mod")},
      {SERVER_ID, RoleOf(ROLE_MAPPINGS, "founder"), RoleOf(ROLE_MAPPINGS, "mod")} }

\* Ways guild.fetch_member ends without a member (lines 107, 113, 116, 119).
FetchFailures == {"member_none", "not_found", "forbidden", "exception"}

\* ------------------------------------------------------------------ state
VARIABLES
    bot_loop,   \* the global bot_loop (line 47): None or the bot's loop
    client,     \* the discord client: "stopped", "connecting" or "ready"
    guilds,     \* the ids of the guilds in the client's cache
    role_mappings, \* the module-level dict ROLE_MAPPINGS (lines 31-37)
    req,        \* per request: the handler's position and local variables
    res_pc,     \* resolver harness: "input" or "built"
    res_roles,  \* resolver harness: the role list given to update_metadata
    res_metadata \* resolver harness: the metadata built from it

vars == <<bot_loop, client, guilds, role_mappings, req, res_pc, res_roles,
         res_metadata>>

botVars == <<bot_loop, client, guilds>>

resVars == <<res_pc, res_roles, res_metadata>>

NoCalls == [token |-> 0, user |-> 0, lookup |-> 0, put |-> 0]

\* A request that has not arrived yet.
\*   pc            "idle", "token" (line 72 in flight), "user" (line 84 in
\*                 flight), "lookup" (blocked in line 130), "put" (line 156
\*                 in flight), "done"
\*   coro          get_user_roles on the bot loop: "none", "queued",
\*                 "fetching" (suspended in line 106), "done"
\*   coro_user     the user_id argument of that coroutine
\*   outcome       how the coroutine ended
\*   future_raised whether the coroutine ended by raising
\*   future_result the value future.result() returns otherwise
\*   put_token, put_metadata   what line 156 sent
\*   token_res, user_res, put_res   results of the three HTTP calls
\*   status        the HTTP status of the response, 0 while there is none
\*   error         the step that aborted the request
\*   calls         outbound calls made so far
InitReq ==
    [pc |-> "idle", code |-> None, access_token |-> None, user_id |-> None,
     coro |-> "none", coro_user |-> None, outcome |-> "none",
     future_raised |-> FALSE, future_result |-> {}, user_role_ids |-> {}, metadata |-> EmptyDict,
     put_token |-> None, put_metadata |-> EmptyDict,
     token_res |-> "none", user_res |-> "none", put_res |-> "none",
     status |-> 0, error |-> "none", calls |-> NoCalls]

Init ==
    /\ bot_loop = None
    /\ client = "stopped"
    /\ guilds = {}
    /\ role_mappings = ROLE_MAPPINGS
    /\ req = [r \in Requests |-> InitReq]
    /\ res_pc = "off"
    /\ res_roles = {}
    /\ res_metadata = EmptyDict

\* The request's record with some fields replaced.
Set(r, changes) ==
    req' = [req EXCEPT ![r] = changes @@ @]

Called(r, what) == [req[r].calls EXCEPT ![what] = @ + 1]

\* The handler returns a response.
Respond(r, status, error) ==
    [pc |-> "done", status |-> status, error |-> error]

\* --------------------------------------------------------- run_bot, 165-169
\* Lines 167-168: the bot thread creates its loop and publishes it.
NewEventLoop ==
    /\ bot_loop = None
    /\ bot_loop' = "loop"
    /\ UNCHANGED <<client, guilds, req, resVars, role_mappings>>

\* Line 169: client.run starts the loop and begins to log in.
ClientRun ==
    /\ bot_loop # None
    /\ client = "stopped"
    /\ client' = "connecting"
    /\ UNCHANGED <<bot_loop, guilds, req, resVars, role_mappings>>

\* Line 169, later: the gateway session is ready; the guild is in the
\* client's cache if the bot is a member of it.
ClientReady ==
    /\ client = "connecting"
    /\ client' = "ready"
    /\ \E in_guild \in BOOLEAN :
         guilds' = IF in_guild THEN {SERVER_ID} ELSE {}
    /\ UNCHANGED <<bot_loop, req, resVars, role_mappings>>

\* ---------------------------------------------------- linked_roles, 54-95
\* Line 57: `not code`.
NeverFalsy(code) == FALSE

Falsy(code) == code = None \/ code = ""

\* Lines 56-72: the request arrives; without a code it is answered 400,
\* otherwise the token exchange is sent.
Receive(r) ==
    /\ req[r].pc = "idle"
    /\ \E code \in CodeInputs :
         IF Falsy(code)
         THEN Set(r, [code |-> code] @@ Respond(r, 400, "code"))
         ELSE Set(r, [code |-> code, pc |-> "token", calls |-> Called(r, "token")])
    /\ UNCHANGED <<botVars, resVars, role_mappings>>

\* Lines 72-75 and 84-87: a call whose result is not a usable 2xx answer
\* raises (requests.post/get, raise_for_status, or the key lookup).
RaisesOnTransportOnly(res) == res = "transport_error"

Raises(res) == res # "ok"

\* Lines 72-84: the token exchange returns.  Failures end the request with
\* 500 (RequestException: line 77; KeyError: Flask's error handler);
\* success sends the identity lookup with the new token.
TokenResponse(r) ==
    /\ req[r].pc = "token"
    /\ \E res \in JsonResults :
         IF Raises(res)
         THEN Set(r, [token_res |-> res] @@ Respond(r, 500, "token"))
         ELSE Set(r, [token_res |-> res, access_token |-> TokenFor(req[r].code),
                      pc |-> "user", calls |-> Called(r, "user")])
    /\ UNCHANGED <<botVars, resVars, role_mappings>>

\* Lines 84-92 and 129-130: the identity lookup returns.  Failures end the
\* request with 500; success calls update_metadata, which submits
\* get_user_roles(user_id) to bot_loop and blocks on the future.  With
\* bot_loop still None, run_coroutine_threadsafe raises AttributeError and
\* Flask answers 500.
UserResponse(r) ==
    /\ req[r].pc = "user"
    /\ \E res \in JsonResults :
         IF Raises(res)
         THEN Set(r, [user_res |-> res] @@ Respond(r, 500, "user"))
         ELSE LET user_id == UserOf(req[r].access_token) IN
              IF bot_loop = None
              THEN Set(r, [user_res |-> res, user_id |-> user_id]
                          @@ Respond(r, 500, "submit"))
              ELSE Set(r, [user_res |-> res, user_id |-> user_id,
                           pc |-> "lookup", coro |-> "queued",
                           coro_user |-> user_id,
                           calls |-> Called(r, "lookup")])
    /\ UNCHANGED <<botVars, resVars, role_mappings>>

\* ------------------------------------------------- get_user_roles, 98-121
\* Lines 113-121: the except clauses catch every way fetch_member fails.
CaughtUnlessForbidden(failure) == failure # "forbidden"

Caught(failure) == TRUE

\* Variant: the `if not guild` test of lines 102-104 is missing, so every
\* coroutine goes on to fetch_member.
CoroStartSkipsGuildCheck(r) ==
    /\ client # "stopped"
    /\ req[r].coro = "queued"
    /\ Set(r, [coro |-> "fetching"])
    /\ UNCHANGED <<botVars, resVars, role_mappings>>

\* Variant: without the guild the coroutine ends without completing the
\* future, so the handler is never woken.
CoroStartDropsFuture(r) ==
    /\ client # "stopped"
    /\ req[r].coro = "queued"
    /\ IF SERVER_ID \notin guilds
       THEN Set(r, [coro |-> "lost", outcome |-> "no_guild"])
       ELSE Set(r, [coro |-> "fetching"])
    /\ UNCHANGED <<botVars, resVars, role_mappings>>

\* Lines 100-104: the bot loop starts a submitted coroutine.  The loop runs
\* once client.run has started it.  Without the guild in the client's cache
\* the coroutine returns []; otherwise it suspends in guild.fetch_member.
CoroStart(r) ==
    /\ client # "stopped"
    /\ req[r].coro = "queued"
    /\ IF SERVER_ID \notin guilds
       THEN Set(r, [coro |-> "done", outcome |-> "no_guild", future_result |-> {}])
       ELSE Set(r, [coro |-> "fetching"])
    /\ UNCHANGED <<botVars, resVars, role_mappings>>

\* Lines 106-121: guild.fetch_member returns.  A member gives the list of
\* its role ids; no member or a caught exception gives [].
CoroFinish(r) ==
    /\ req[r].coro = "fetching"
    /\ \/ \E roles \in MemberRoleLists :
            Set(r, [coro |-> "done", outcome |-> "roles", future_result |-> roles])
       \/ \E failure \in FetchFailures :
            IF failure = "member_none" \/ Caught(failure)
            THEN Set(r, [coro |-> "done", outcome |-> failure, future_result |-> {}])
            ELSE Set(r, [coro |-> "done", outcome |-> failure, future_raised |-> TRUE])
    /\ UNCHANGED <<botVars, resVars, role_mappings>>

\* ------------------------------------------------ update_metadata, 130-156
\* Lines 146-156: the PUT is sent with the token in its header and the
\* metadata in its body.
Publish(r, user_role_ids, metadata, access_token) ==
    Set(r, [user_role_ids |-> user_role_ids, metadata |-> metadata,
            put_token |-> access_token, put_metadata |-> metadata,
            pc |-> "put", calls |-> Called(r, "put")])

\* Variant: `metadata` is a module-level dict of counters that is never
\* reset, so flags published earlier are added to the new ones.
FutureResultCountingDict(r) ==
    /\ req[r].pc = "lookup"
    /\ req[r].coro = "done"
    /\ LET built == BuildMetadata(role_mappings, req[r].future_result)
           kept(k) == IF \E o \in Requests \ {r} :
                            /\ req[o].calls.put > 0
                            /\ k \in DOMAIN req[o].put_metadata
                            /\ req[o].put_metadata[k] >= 1
                      THEN 1 ELSE 0
       IN  Publish(r, req[r].future_result,
                   [k \in DOMAIN built |-> built[k] + kept(k)],
                   req[r].access_token)
    /\ UNCHANGED <<botVars, resVars, role_mappings>>

\* Variant: the access token is kept in a module-level variable that any
\* request overwrites, so the PUT carries whichever token was stored last.
FutureResultSharedToken(r) ==
    /\ req[r].pc = "lookup"
    /\ req[r].coro = "done"
    /\ \E o \in Requests :
         /\ req[o].access_token # None
         /\ Publish(r, req[r].future_result,
                    BuildMetadata(role_mappings, req[r].future_result),
                    req[o].access_token)
    /\ UNCHANGED <<botVars, resVars, role_mappings>>

\* Variant: the override is applied to the shared dict too: for a manager
\* the "mod" item is removed from ROLE_MAPPINGS.
FutureResultWritesMapping(r) ==
    /\ req[r].pc = "lookup"
    /\ req[r].coro = "done"
    /\ ~req[r].future_raised
    /\ LET metadata == BuildMetadata(role_mappings, req[r].future_result)
           NotMod(item) == item[1] # "mod"
       IN  /\ Publish(r, req[r].future_result, metadata, req[r].access_token)
           /\ role_mappings' = IF DictGetIs(metadata, "manager", 1)
                               THEN SelectSeq(role_mappings, NotMod)
                               ELSE role_mappings
    /\ UNCHANGED <<botVars, resVars>>

\* Lines 130-156: the handler wakes from future.result() (which re-raises
\* what the coroutine raised), builds the metadata and sends it.
FutureResult(r) ==
    /\ req[r].pc = "lookup"
    /\ req[r].coro = "done"
    /\ IF req[r].future_raised
       THEN Set(r, Respond(r, 500, "lookup"))
       ELSE Publish(r, req[r].future_result,
                    BuildMetadata(role_mappings, req[r].future_result),
                    req[r].access_token)
    /\ UNCHANGED <<botVars, resVars, role_mappings>>

\* Variant: a non-2xx answer makes update_metadata send the PUT again.
PutResponseRetries(r) ==
    /\ req[r].pc = "put"
    /\ \E res \in HttpResults :
         CASE res = "transport_error" ->
                Set(r, [put_res |-> res] @@ Respond(r, 500, "put"))
           [] res = "http_error" ->
                Set(r, [put_res |-> res, calls |-> Called(r, "put")])
           [] OTHER ->
                Set(r, [put_res |-> res] @@ Respond(r, 302, "none"))
    /\ UNCHANGED <<botVars, resVars, role_mappings>>

\* Lines 156-161 and 95: the publish call returns.  A 2xx answer and a
\* non-2xx answer (HTTPError, caught and printed in lines 159-161) both
\* return to linked_roles, which redirects.  After a transport failure
\* `response` was never bound, so line 161 raises UnboundLocalError inside
\* the handler and Flask answers 500.
PutResponse(r) ==
    /\ req[r].pc = "put"
    /\ \E res \in HttpResults :
         IF res = "transport_error"
         THEN Set(r, [put_res |-> res] @@ Respond(r, 500, "put"))
         ELSE Set(r, [put_res |-> res] @@ Respond(r, 302, "none"))
    /\ UNCHANGED <<botVars, resVars, role_mappings>>

\* ------------------------------------------------------------------ system
Next ==
    \/ NewEventLoop
    \/ ClientRun
    \/ ClientReady
    \/ \E r \in Requests : Receive(r)
    \/ \E r \in Requests : TokenResponse(r)
    \/ \E r \in Requests : UserResponse(r)
    \/ \E r \in Requests : CoroStart(r)
    \/ \E r \in Requests : CoroFinish(r)
    \/ \E r \in Requests : FutureResult(r)
    \/ \E r \in Requests : PutResponse(r)

Spec == Init /\ [][Next]_vars

\* Scheduling: every outbound HTTP call returns (the three calls of the
\* handler and the bot's fetch_member), the bot thread runs run_bot and its
\* loop executes what was submitted to it, and a handler blocked in
\* future.result() wakes once the future is done.  Nothing is assumed about
\* when requests arrive.
Fairness ==
    /\ WF_vars(NewEventLoop)
    /\ WF_vars(ClientRun)
    /\ \A r \in Requests :
         /\ WF_vars(TokenResponse(r))
         /\ WF_vars(UserResponse(r))
         /\ WF_vars(CoroStart(r))
         /\ WF_vars(CoroFinish(r))
         /\ WF_vars(FutureResult(r))
         /\ WF_vars(PutResponse(r))

SpecLive == Init /\ [][Next]_vars /\ Fairness

\* ------------------------------------------------------ resolver harness
\* update_metadata's lines 133-143 applied to every role list over the
\* mapped role ids and two unmapped ones.
UnmappedRoleIds == {SERVER_ID, SERVER_ID + 1}

ResInit ==
    /\ bot_loop = None
    /\ client = "stopped"
    /\ guilds = {}
    /\ role_mappings = ROLE_MAPPINGS
    /\ req = [r \in Requests |-> InitReq]
    /\ res_pc = "input"
    /\ res_roles \in SUBSET (RoleIds(ROLE_MAPPINGS) \cup UnmappedRoleIds)
    /\ res_metadata = EmptyDict

ResBuild ==
    /\ res_pc = "input"
    /\ res_metadata' = BuildMetadata(role_mappings, res_roles)
    /\ res_pc' = "built"
    /\ UNCHANGED <<botVars, role_mappings, req, res_roles>>

ResNext == ResBuild

SpecResolve == ResInit /\ [][ResNext]_vars

\* ------------------------------------------------------ mapping harness
\* update_metadata's lines 133-143 under other configurations of
\* ROLE_MAPPINGS (the dict is meant to be edited per server, lines 23-30):
\* mappings with unique keys, with and without "manager" and "mod".
Item(key) == <<key, RoleOf(ROLE_MAPPINGS, key)>>

Mappings ==
    { ROLE_MAPPINGS,
      << >>,
      <<Item("manager")>>,
      <<Item("mod")>>,
      <<Item("manager"), Item("mod")>>,
      <<Item("mod"), Item("manager")>>,
      <<Item("founder"), Item("manager")>>,
      <<Item("founder"), Item("event_host")>> }

MapInit ==
    /\ bot_loop = None
    /\ client = "stopped"
    /\ guilds = {}
    /\ role_mappings \in Mappings
    /\ req = [r \in Requests |-> InitReq]
    /\ res_pc = "input"
    /\ res_roles \in SUBSET (RoleIds(ROLE_MAPPINGS) \cup UnmappedRoleIds)
    /\ res_metadata = EmptyDict

SpecMappings == MapInit /\ [][ResNext]_vars

\* ================================================================ claims
Published(r) == req[r].calls.put > 0

ManagerId == RoleOf(ROLE_MAPPINGS, "manager")

ModId == RoleOf(ROLE_MAPPINGS, "mod")

AllZero == [k \in Keys(ROLE_MAPPINGS) |-> 0]

\* The record section 4.1 of the specification prescribes for a role set.
Reference(roles) ==
    [k \in Keys(ROLE_MAPPINGS) |->
        IF k = "mod"
        THEN IF ModId \in roles /\ ManagerId \notin roles THEN 1 ELSE 0
        ELSE IF RoleOf(ROLE_MAPPINGS, k) \in roles THEN 1 ELSE 0]

\* C1: a request whose `code` parameter is missing is answered 400 and has
\* made no outbound call: no token exchange, no identity lookup, no role
\* lookup submitted to the bot thread, no publish.
C1_MissingCode400 ==
    \A r \in Requests :
        (req[r].pc # "idle" /\ req[r].code = None) =>
            /\ req[r].pc = "done"
            /\ req[r].status = 400
            /\ req[r].calls = NoCalls
            /\ req[r].coro = "none"
            /\ req[r].put_token = None

C1_Witness ==
    \E r \in Requests :
        req[r].pc = "done" /\ req[r].code = None /\ req[r].status = 400

\* C2: override law: in the record built for any role set, "manager" = 1
\* implies "mod" = 0, also when the set holds both mapped role ids.
C2_OverrideLaw ==
    res_pc = "built" =>
        (res_metadata["manager"] = 1 => res_metadata["mod"] = 0)

C2_Witness ==
    /\ res_pc = "built"
    /\ {ManagerId, ModId} \subseteq res_roles
    /\ res_metadata["manager"] = 1
    /\ res_metadata["mod"] = 0

\* C3: the record built for any role set equals the reference; the empty
\* set gives all zeros; every mapped role but manager's gives all ones
\* except manager = 0, with mod = 1.
C3_MatchesReference ==
    res_pc = "built" =>
        /\ res_metadata = Reference(res_roles)
        /\ res_roles = {} => res_metadata = AllZero
        /\ res_roles = RoleIds(ROLE_MAPPINGS) \ {ManagerId} =>
             res_metadata = [k \in Keys(ROLE_MAPPINGS) |->
                                IF k = "manager" THEN 0 ELSE 1]

C3_Witness ==
    /\ res_pc = "built"
    /\ res_roles = RoleIds(ROLE_MAPPINGS) \ {ManagerId}
    /\ res_metadata["mod"] = 1
    /\ res_metadata["manager"] = 0

\* C4: a failed publish call (non-2xx answer or transport failure) ends the
\* request with 500; a 302 is returned only when the publish was accepted.
C4_PublishFailureSurfaced ==
    \A r \in Requests :
        /\ (req[r].pc = "done" /\ req[r].put_res \in {"http_error", "transport_error"})
              => req[r].status = 500
        /\ req[r].status = 302 => req[r].put_res = "ok"

\* C5: a failed token exchange or identity lookup ends the request with 500
\* and no later step runs.
C5_UpstreamFailureAborts ==
    \A r \in Requests :
        /\ req[r].token_res \in {"http_error", "transport_error"} =>
              /\ req[r].pc = "done" /\ req[r].status = 500
              /\ req[r].calls.user = 0 /\ req[r].calls.lookup = 0
              /\ req[r].calls.put = 0 /\ req[r].coro = "none"
        /\ req[r].user_res \in {"http_error", "transport_error"} =>
              /\ req[r].pc = "done" /\ req[r].status = 500
              /\ req[r].calls.lookup = 0 /\ req[r].calls.put = 0
              /\ req[r].coro = "none"

C5_Witness ==
    \E r1, r2 \in Requests :
        /\ req[r1].token_res = "http_error" /\ req[r1].status = 500
        /\ req[r2].user_res = "transport_error" /\ req[r2].status = 500

\* C6: fail-soft lookup: when the lookup finds no server or no member, is
\* forbidden or raises anything else, it returns the empty role list, the
\* request is not aborted by it, and the publish call is made with every
\* field 0.
C6_FailSoftLookup ==
    \A r \in Requests :
        (req[r].coro = "done" /\ req[r].outcome # "roles") =>
            /\ ~req[r].future_raised
            /\ req[r].future_result = {}
            /\ req[r].error # "lookup"
            /\ req[r].pc \in {"lookup", "put", "done"}
            /\ req[r].pc # "lookup" =>
                  /\ req[r].calls.put = 1
                  /\ req[r].put_metadata = AllZero

C6_Witness ==
    \E r1, r2 \in Requests :
        /\ req[r1].outcome = "forbidden" /\ Published(r1)
        /\ req[r1].put_metadata = AllZero
        /\ req[r2].outcome = "no_guild" /\ Published(r2)
        /\ req[r2].put_metadata = AllZero

\* C7: within a request each step starts only after the previous one has
\* completed successfully: identity lookup after the token exchange, role
\* lookup after the identity lookup, publish after the lookup's result,
\* redirect after the publish.
C7_StrictOrder ==
    \A r \in Requests :
        /\ req[r].calls.user > 0 => req[r].token_res = "ok"
        /\ req[r].calls.lookup > 0 => req[r].user_res = "ok"
        /\ req[r].calls.put > 0 =>
              /\ req[r].calls.lookup > 0
              /\ req[r].coro = "done" /\ ~req[r].future_raised
        /\ req[r].status = 302 =>
              /\ req[r].calls.put > 0
              /\ req[r].put_res = "ok"

\* C8: a role lookup is only ever submitted to an established bot session:
\* no request reaches the lookup step while bot_loop is unset or the bot
\* connection is not ready.
C8_LookupOnlyWhenReady ==
    \A r \in Requests :
        /\ req[r].coro = "queued" => (bot_loop # None /\ client = "ready")
        /\ req[r].error # "submit"

\* C9: no hidden state: two requests whose lookups returned the same role
\* set are given identical metadata records, whatever was handled before
\* or concurrently.
C9_NoHiddenState ==
    \A r1, r2 \in Requests :
        (Published(r1) /\ Published(r2)
            /\ req[r1].future_result = req[r2].future_result) =>
            /\ req[r1].metadata = req[r2].metadata
            /\ req[r1].put_metadata = req[r2].put_metadata

C9_Witness ==
    \E r1, r2 \in Requests :
        /\ r1 # r2
        /\ req[r1].pc = "done" /\ req[r1].status = 302
        /\ req[r2].pc = "put"
        /\ ModId \in req[r1].future_result
        /\ req[r1].future_result = req[r2].future_result
        /\ req[r1].user_id # req[r2].user_id

\* C10: each request publishes, under its own access token, the record
\* computed from the role set its own lookup returned for the user id
\* resolved from that token.
C10_OwnTokenOwnRoles ==
    \A r \in Requests :
        Published(r) =>
            /\ req[r].access_token = TokenFor(req[r].code)
            /\ req[r].put_token = req[r].access_token
            /\ req[r].user_id = UserOf(req[r].put_token)
            /\ req[r].coro_user = req[r].user_id
            /\ req[r].user_role_ids = req[r].future_result
            /\ req[r].put_metadata = Reference(req[r].future_result)

C10_Witness ==
    \E r1, r2 \in Requests :
        /\ req[r1].pc = "put" /\ req[r2].pc = "put"
        /\ req[r1].user_id # req[r2].user_id
        /\ req[r1].put_token # req[r2].put_token
        /\ req[r1].put_metadata # req[r2].put_metadata

\* C11: every request that has arrived eventually gets its response (400,
\* 500 or 302), given that outbound calls return and the bot loop keeps
\* running and executes submitted work; a request blocked on the lookup
\* future is eventually unblocked.
C11_EventuallyResponds ==
    \A r \in Requests :
        (req[r].pc # "idle") ~>
            (req[r].pc = "done" /\ req[r].status \in {400, 500, 302})

C11_Witness ==
    \E r \in Requests :
        /\ req[r].pc = "done" /\ req[r].status = 302
        /\ req[r].calls.lookup = 1 /\ req[r].coro = "done"

\* A lookup the bot loop has started and not finished: its coroutine is
\* suspended in `await guild.fetch_member(user_id)`.
InProgress(r) == req[r].coro = "fetching"

\* C12: lookups of concurrent requests are serialized by the bot loop: the
\* bot thread never has two lookups in progress at the same time.
C12_LookupsSerialized ==
    \A r1, r2 \in Requests :
        (InProgress(r1) /\ InProgress(r2)) => r1 = r2

\* C12, amended: two lookups are in progress together only while both are
\* suspended in fetch_member, which takes a ready bot with the guild in its
\* cache; each belongs to a different request blocked on its own future.
C12_OverlapOnlyInFetch ==
    \A r1, r2 \in Requests :
        (r1 # r2 /\ InProgress(r1) /\ InProgress(r2)) =>
            /\ client = "ready"
            /\ SERVER_ID \in guilds
            /\ req[r1].pc = "lookup" /\ req[r2].pc = "lookup"
            /\ req[r1].calls.lookup = 1 /\ req[r2].calls.lookup = 1

C12_Witness ==
    \E r1, r2 \in Requests :
        r1 # r2 /\ InProgress(r1) /\ InProgress(r2)

\* C13: no retry: within one request the token exchange, the identity
\* lookup, the role lookup and the publish call are each made at most once,
\* whatever their outcomes, and at most one lookup is outstanding: a
\* coroutine is pending only for the single lookup its request waits for.
C13_NoRetry ==
    \A r \in Requests :
        /\ req[r].calls.token <= 1
        /\ req[r].calls.user <= 1
        /\ req[r].calls.lookup <= 1
        /\ req[r].calls.put <= 1
        /\ req[r].coro \in {"queued", "fetching"} =>
              (req[r].calls.lookup = 1 /\ req[r].pc = "lookup")
        /\ req[r].pc = "done" =>
              (req[r].coro \in {"none", "done"}
                 /\ req[r].calls.user <= req[r].calls.token
                 /\ req[r].calls.put <= req[r].calls.lookup)

C13_Witness ==
    \E r1, r2 \in Requests :
        /\ req[r1].pc = "done" /\ req[r1].put_res = "http_error"
        /\ req[r1].calls = [token |-> 1, user |-> 1, lookup |-> 1, put |-> 1]
        /\ req[r2].pc = "done" /\ req[r2].token_res = "transport_error"
        /\ req[r2].calls = [token |-> 1, user |-> 0, lookup |-> 0, put |-> 0]

\* C14: for every role mapping with unique field names (also one with a
\* "manager" field and no "mod" field) and every role set, the field names
\* of the built record are among the mapping's field names and every value
\* is 0 or 1.
C14_FieldsWithinMapping ==
    res_pc = "built" =>
        /\ DOMAIN res_metadata \subseteq Keys(role_mappings)
        /\ \A k \in DOMAIN res_metadata : res_metadata[k] \in {0, 1}

\* C15: handling requests leaves ROLE_MAPPINGS as it was at process start,
\* and bot_loop is written only by the bot thread at startup (from None,
\* before client.run), never by a step of a request.
C15_FrameEffect ==
    /\ role_mappings = ROLE_MAPPINGS
    /\ [][ /\ role_mappings' = role_mappings
           /\ bot_loop' # bot_loop =>
                 (bot_loop = None /\ client = "stopped" /\ req' = req) ]_vars

C15_Witness ==
    \E r1, r2 \in Requests :
        /\ req[r1].status = 302 /\ ManagerId \in req[r1].future_result
        /\ req[r2].status = 500
        /\ bot_loop # None
        /\ role_mappings = ROLE_MAPPINGS

=============================================================================
